---- MODULE Spec2Model ----
(***************************************************************************)
(* CustomerMapper: the Mapper (Mappers/customer_mapper.py, json_to_xml)    *)
(* and the Driver (process_customers.py, csv_to_json_and_xml).             *)
(*                                                                         *)
(* Strings are sequences of one-character strings, so that escaping and    *)
(* parsing are computed character by character.  A Python value is a       *)
(* record [kind, s, n]: kind "str" carries s, kind "int" carries n, kind   *)
(* "none" is None, and kind "absent" marks a key that is not in the dict.  *)
(***************************************************************************)
EXTENDS Integers, Sequences, FiniteSets, TLC

\* ------------------------------------------------------------------ bounds
MaxLen == 1

MaxRecords == 2

MaxRows == 2

\* ------------------------------------------------------------ Python values
None == [kind |-> "none", s |-> <<>>, n |-> 0]

Absent == [kind |-> "absent", s |-> <<>>, n |-> 0]

StrVal(s) == [kind |-> "str", s |-> s, n |-> 0]

IntVal(n) == [kind |-> "int", s |-> <<>>, n |-> n]

\* U+0001, a character that XML 1.0 cannot carry
CTRL == "x01"

NA == <<"N", "/", "A">>

\* bool(v): the empty string, None and 0 are falsy
Truthy(v) ==
  \/ v.kind = "str" /\ v.s # <<>>
  \/ v.kind = "int" /\ v.n # 0

\* customer_dict.get(key): None when the key is absent
Get(customer_dict, key) ==
  IF customer_dict[key].kind = "absent" THEN None ELSE customer_dict[key]

\* customer_dict.get(key, default): the default only when the key is absent
GetDefault(customer_dict, key, default) ==
  IF customer_dict[key].kind = "absent" THEN default ELSE customer_dict[key]

Digit(d) == <<"0", "1", "2", "3", "4", "5", "6", "7", "8", "9">>[d + 1]

RECURSIVE Digits(_)
Digits(n) == IF n < 10 THEN <<Digit(n)>> ELSE Digits(n \div 10) \o <<Digit(n % 10)>>

\* str(v) for the values that reach it (a string or a non-negative integer)
PyStr(v) == IF v.kind = "str" THEN v.s ELSE Digits(v.n)

RECURSIVE LStrip(_)
LStrip(s) == IF s # <<>> /\ Head(s) = " " THEN LStrip(Tail(s)) ELSE s

RECURSIVE RStrip(_)
RStrip(s) ==
  IF s # <<>> /\ s[Len(s)] = " " THEN RStrip(SubSeq(s, 1, Len(s) - 1)) ELSE s

\* str.strip()
Strip(s) == RStrip(LStrip(s))

\* ------------------------------------------------------------- element tree
Element(tag, attrib, text, children) ==
  [tag |-> tag, attrib |-> attrib, text |-> text, children |-> children]

Leaf(tag, text) == Element(tag, <<>>, text, <<>>)

SubElement_prepend(parent, element) ==
  [parent EXCEPT !.children = <<element>> \o @]

\* ET.SubElement(parent, tag): the new element becomes the last child
SubElement(parent, element) ==
  [parent EXCEPT !.children = Append(@, element)]

CustomerIDAttrib_nostr(customer_dict) ==
  IF Truthy(Get(customer_dict, "Customer Id"))
  THEN <<[name |-> "CustomerID", value |-> Get(customer_dict, "Customer Id")]>>
  ELSE <<>>

CustomerIDAttrib_always(customer_dict) ==
  LET v == Get(customer_dict, "Customer Id") IN
  <<[name |-> "CustomerID", value |-> IF Truthy(v) THEN StrVal(PyStr(v)) ELSE StrVal(<<>>)]>>

\* lines 14-16: the CustomerID attribute
CustomerIDAttrib(customer_dict) ==
  IF Truthy(Get(customer_dict, "Customer Id"))
  THEN <<[name |-> "CustomerID", value |-> StrVal(PyStr(Get(customer_dict, "Customer Id")))]>>
  ELSE <<>>

\* line 23: the two name parts, "" for an absent key
contact_name_parts(customer_dict) ==
  <<GetDefault(customer_dict, "First Name", StrVal(<<>>)),
    GetDefault(customer_dict, "Last Name", StrVal(<<>>))>>

\* filter(None, parts): the truthy parts, in order
FilterTruthy(parts) == SelectSeq(parts, Truthy)

\* " ".join(parts) raises TypeError when a kept part is not a string
JoinRaises(customer_dict) ==
  \E i \in 1..2 :
    /\ Truthy(contact_name_parts(customer_dict)[i])
    /\ contact_name_parts(customer_dict)[i].kind # "str"

RECURSIVE Join(_)
Join(parts) ==
  IF parts = <<>> THEN <<>>
  ELSE IF Len(parts) = 1 THEN parts[1].s
  ELSE parts[1].s \o <<" ">> \o Join(Tail(parts))

ContactNameText_nostrip(customer_dict) ==
  LET contact_name_str == Join(FilterTruthy(contact_name_parts(customer_dict)))
  IN  IF contact_name_str # <<>> THEN StrVal(contact_name_str) ELSE StrVal(NA)

\* lines 24-26: the joined, stripped name or "N/A"
ContactNameText(customer_dict) ==
  LET contact_name_str == Strip(Join(FilterTruthy(contact_name_parts(customer_dict))))
  IN  IF contact_name_str # <<>> THEN StrVal(contact_name_str) ELSE StrVal(NA)

FaxChildren_empty(customer_dict) ==
  <<Leaf("Fax", Get(customer_dict, "Phone 2"))>>

\* lines 36-39: the optional Fax child
FaxChildren(customer_dict) ==
  IF Truthy(Get(customer_dict, "Phone 2"))
  THEN <<Leaf("Fax", Get(customer_dict, "Phone 2"))>>
  ELSE <<>>

FullAddress_frominput(customer_dict) ==
  Element("FullAddress", <<>>, None,
    <<Leaf("Address", StrVal(NA)),
      Leaf("City", GetDefault(customer_dict, "City", StrVal(NA))),
      Leaf("Region", StrVal(NA)),
      Leaf("PostalCode", GetDefault(customer_dict, "PostalCode", StrVal(PyStr(IntVal(0))))),
      Leaf("Country", GetDefault(customer_dict, "Country", StrVal(NA)))>>)

\* lines 41-58: the FullAddress subtree
FullAddress(customer_dict) ==
  Element("FullAddress", <<>>, None,
    <<Leaf("Address", StrVal(NA)),
      Leaf("City", GetDefault(customer_dict, "City", StrVal(NA))),
      Leaf("Region", StrVal(NA)),
      Leaf("PostalCode", StrVal(PyStr(IntVal(0)))),
      Leaf("Country", GetDefault(customer_dict, "Country", StrVal(NA)))>>)

\* lines 12-58: the Customer element built from one record
CustomerElement(customer_dict) ==
  Element("Customer", CustomerIDAttrib(customer_dict), None,
    <<Leaf("CompanyName", GetDefault(customer_dict, "Company", StrVal(NA))),
      Leaf("ContactName", ContactNameText(customer_dict)),
      Leaf("ContactTitle", StrVal(NA)),
      Leaf("Phone", GetDefault(customer_dict, "Phone 1", StrVal(NA)))>>
    \o FaxChildren(customer_dict)
    \o <<FullAddress(customer_dict)>>)

\* ------------------------------------------------------------ serialization
RECURSIVE Replace(_, _, _)
\* str.replace(old, new) for a one-character old
Replace(text, old, new) ==
  IF text = <<>> THEN <<>>
  ELSE (IF Head(text) = old THEN new ELSE <<Head(text)>>) \o Replace(Tail(text), old, new)

AMP == <<"&", "a", "m", "p", ";">>

LT == <<"&", "l", "t", ";">>

GT == <<"&", "g", "t", ";">>

QUOT == <<"&", "q", "u", "o", "t", ";">>

APOS == <<"&", "a", "p", "o", "s", ";">>

escape_cdata_amp_last(text) ==
  Replace(Replace(Replace(text, "<", LT), ">", GT), "&", AMP)

\* ElementTree._escape_cdata, used by ET.tostring for element text
escape_cdata(text) ==
  Replace(Replace(Replace(text, "&", AMP), "<", LT), ">", GT)

\* ElementTree._escape_attrib, used by ET.tostring for attribute values
escape_attrib(text) ==
  Replace(Replace(Replace(Replace(text, "&", AMP), "<", LT), ">", GT), "\"", QUOT)

\* minidom._write_data, used by toprettyxml for text and attribute values
write_data(data) ==
  Replace(Replace(Replace(Replace(data, "&", AMP), "<", LT), "\"", QUOT), ">", GT)

StartsWith(s, prefix) ==
  Len(s) >= Len(prefix) /\ SubSeq(s, 1, Len(prefix)) = prefix

Drop(s, k) == SubSeq(s, k + 1, Len(s))

Entities == {AMP, LT, GT, QUOT, APOS}

EntityChar(e) ==
  IF e = AMP THEN "&" ELSE IF e = LT THEN "<" ELSE IF e = GT THEN ">"
  ELSE IF e = QUOT THEN "\"" ELSE "'"

Failed == [ok |-> FALSE, s |-> <<>>]

RECURSIVE ParseChars(_, _)
\* an XML parser reading character data (in_attr: a double-quoted attribute
\* value): entity references are resolved; a raw "<", a raw "&" that starts
\* no entity, a raw quote inside an attribute value and a character outside
\* the XML character range are not well-formed
ParseChars(s, in_attr) ==
  IF s = <<>> THEN [ok |-> TRUE, s |-> <<>>]
  ELSE IF Head(s) = CTRL \/ Head(s) = "<" \/ (in_attr /\ Head(s) = "\"") THEN Failed
  ELSE IF Head(s) = "&"
  THEN IF \E e \in Entities : StartsWith(s, e)
       THEN LET e == CHOOSE x \in Entities : StartsWith(s, x)
                rest == ParseChars(Drop(s, Len(e)), in_attr)
            IN  [ok |-> rest.ok, s |-> IF rest.ok THEN <<EntityChar(e)>> \o rest.s ELSE <<>>]
       ELSE Failed
  ELSE LET rest == ParseChars(Tail(s), in_attr)
       IN  [ok |-> rest.ok, s |-> IF rest.ok THEN <<Head(s)>> \o rest.s ELSE <<>>]

RECURSIVE tostring_raises(_)
\* ET.tostring raises TypeError on a truthy text, or an attribute value, that
\* is not a string
tostring_raises(element) ==
  \/ Truthy(element.text) /\ element.text.kind # "str"
  \/ \E i \in DOMAIN element.attrib : element.attrib[i].value.kind # "str"
  \/ \E i \in DOMAIN element.children : tostring_raises(element.children[i])

RECURSIVE tostring(_)
\* line 61, ET.tostring: a falsy text (None, "", 0) is written as no text
tostring(element) ==
  [tag |-> element.tag,
   attrib |-> [i \in DOMAIN element.attrib |->
                 [name |-> element.attrib[i].name,
                  value |-> escape_attrib(element.attrib[i].value.s)]],
   text |-> IF Truthy(element.text) THEN escape_cdata(element.text.s) ELSE <<>>,
   children |-> [i \in DOMAIN element.children |-> tostring(element.children[i])]]

RECURSIVE WellFormed(_)
\* the serialized element is accepted by an XML parser
WellFormed(x) ==
  /\ ParseChars(x.text, FALSE).ok
  /\ \A i \in DOMAIN x.attrib : ParseChars(x.attrib[i].value, TRUE).ok
  /\ \A i \in DOMAIN x.children : WellFormed(x.children[i])

RECURSIVE ParseXml(_)
\* parsing a serialized element: texts and attribute values unescaped
ParseXml(x) ==
  [tag |-> x.tag,
   attrib |-> [i \in DOMAIN x.attrib |->
                 [name |-> x.attrib[i].name,
                  value |-> ParseChars(x.attrib[i].value, TRUE).s]],
   text |-> ParseChars(x.text, FALSE).s,
   children |-> [i \in DOMAIN x.children |-> ParseXml(x.children[i])]]

RECURSIVE toprettyxml(_)
\* line 63, dom.toprettyxml: a text-only element is written on one line, so
\* its text is the escaped data and nothing else
toprettyxml(node) ==
  [tag |-> node.tag,
   attrib |-> [i \in DOMAIN node.attrib |->
                 [name |-> node.attrib[i].name,
                  value |-> write_data(node.attrib[i].value)]],
   text |-> write_data(node.text),
   children |-> [i \in DOMAIN node.children |-> toprettyxml(node.children[i])]]

\* lines 61-63 raise: TypeError from ET.tostring, ExpatError from parseString
PrettyPrintRaises(element) ==
  \/ tostring_raises(element)
  \/ ~WellFormed(tostring(element))

\* lines 61-63: the returned document
PrettyPrint(element) == toprettyxml(ParseXml(tostring(element)))

\* no document: the value of xml_output until json_to_xml returns
NoDocument == [tag |-> "", attrib |-> <<>>, text |-> <<>>, children |-> <<>>]

\* ------------------------------------------------------------------ inputs
RefKeys ==
  {"Customer Id", "Company", "First Name", "Last Name",
   "Phone 1", "Phone 2", "City", "Country"}

PlaceholderKeys == {"ContactTitle", "Address", "Region", "PostalCode"}

Keys == RefKeys \cup PlaceholderKeys \cup {"Index"}

Alphabet == {"a", " ", "&", "<", ">", "\"", "'", CTRL}

Strings ==
  UNION {[1..k -> Alphabet] : k \in 0..MaxLen}
  \cup {<<"0">>, AMP, <<" ", "a", " ">>, <<"a", " ", "&", " ", "<", "a", ">">>}

Vals == {Absent, None, IntVal(0), IntVal(7)} \cup {StrVal(s) : s \in Strings}

NameVals ==
  {Absent, None, IntVal(0), IntVal(7), StrVal(<<>>), StrVal(<<" ">>),
   StrVal(<<"a">>), StrVal(<<" ", "a", " ">>), StrVal(<<"'">>)}

EmptyRecord == [k \in Keys |-> Absent]

BaseRecord ==
  [k \in Keys |->
     IF k = "Index" THEN IntVal(1)
     ELSE IF k = "Customer Id" THEN StrVal(<<"I", "d">>)
     ELSE IF k = "Company" THEN StrVal(<<"C", "o">>)
     ELSE IF k = "First Name" THEN StrVal(<<"F", "n">>)
     ELSE IF k = "Last Name" THEN StrVal(<<"L", "n">>)
     ELSE IF k = "Phone 1" THEN StrVal(<<"5", "5", "5">>)
     ELSE IF k = "Phone 2" THEN StrVal(<<"5", "5", "6">>)
     ELSE IF k = "City" THEN StrVal(<<"C", "i">>)
     ELSE IF k = "Country" THEN StrVal(<<"C", "y">>)
     ELSE Absent]

OtherRecord ==
  [BaseRecord EXCEPT !["Index"] = IntVal(2), !["Customer Id"] = StrVal(<<"0">>),
                     !["Company"] = StrVal(<<"A", "&", "B">>), !["Phone 2"] = Absent]

FewRecords == {BaseRecord, EmptyRecord, OtherRecord}

Records ==
  {[BaseRecord EXCEPT ![k] = v] : k \in Keys, v \in Vals}
  \cup {[BaseRecord EXCEPT !["First Name"] = v, !["Last Name"] = w] : v, w \in NameVals}
  \cup FewRecords

\* the record sequences handed to json_to_xml: at most MaxRecords records,
\* one of them drawn from Records and the others from FewRecords
Inputs ==
  {<<>>} \cup
  UNION {{[i \in 1..n |-> IF i = p THEN r ELSE f[i]] :
            p \in 1..n, r \in Records, f \in [1..n -> FewRecords]} : n \in 1..MaxRecords}

\* ------------------------------------------------------------------- state
\* rows a CSV file can hold under the header Index, Customer Id, First Name,
\* Last Name, Company, Phone 1, Phone 2, City, Country: csv.DictReader gives
\* every header key, "" for an empty cell and None for a cell a short row lacks
CsvKeys == RefKeys \cup {"Index"}

BaseRow == [k \in Keys |-> IF k \in CsvKeys THEN BaseRecord[k] ELSE Absent]

EmptyCellsRow ==
  [BaseRow EXCEPT !["Company"] = StrVal(<<>>), !["Phone 2"] = StrVal(<<>>),
                  !["First Name"] = StrVal(<<>>)]

CtrlRow == [BaseRow EXCEPT !["Company"] = StrVal(<<"a", CTRL>>)]

ShortRow ==
  [k \in Keys |-> IF k = "Customer Id" THEN StrVal(<<"I", "d">>)
                  ELSE IF k \in CsvKeys THEN None ELSE Absent]

IndexTexts == {<<>>, <<"1", "x">>, <<"1", "2">>}

CsvRows ==
  {[t EXCEPT !["Index"] = StrVal(x)] :
     t \in {BaseRow, EmptyCellsRow, CtrlRow, ShortRow}, x \in IndexTexts}
  \cup {ShortRow}

CsvInputs == UNION {[1..n -> CsvRows] : n \in 0..MaxRows}

Timestamps == {1, 2}

\* ------------------------------------------------------------------- state
VARIABLES
  customers_data, mpc, mi, root_element, xml_output,
  csv_exists, csv_rows, dir_exists, dpc, row_i, customers_list, timestamp,
  json_file, xml_file, log, fault

mvars == <<customers_data, mpc, mi, root_element, xml_output>>

envvars == <<csv_exists, csv_rows>>

dvars == <<dir_exists, dpc, row_i, customers_list, timestamp, json_file, xml_file, log, fault>>

vars == <<mvars, envvars, dvars>>

\* ------------------------------------------------------------------ Mapper
\* lines 11-58: one iteration of the loop over customers_data
MapperLoop ==
  /\ mpc = "loop"
  /\ mi <= Len(customers_data)
  /\ IF JoinRaises(customers_data[mi])
     THEN /\ mpc' = "raised"
          /\ UNCHANGED <<mi, root_element>>
     ELSE /\ root_element' = SubElement(root_element, CustomerElement(customers_data[mi]))
          /\ mi' = mi + 1
          /\ mpc' = "loop"
  /\ UNCHANGED <<customers_data, xml_output, envvars, dvars>>

\* lines 60-63: serialize, re-parse, pretty-print and return
MapperPrettyPrint ==
  /\ mpc = "loop"
  /\ mi > Len(customers_data)
  /\ IF PrettyPrintRaises(root_element)
     THEN /\ mpc' = "raised"
          /\ UNCHANGED xml_output
     ELSE /\ mpc' = "returned"
          /\ xml_output' = PrettyPrint(root_element)
  /\ UNCHANGED <<customers_data, mi, root_element, envvars, dvars>>

NoFile == [state |-> "absent", ts |-> 0]

\* the Driver before it is called
DriverIdle ==
  /\ row_i = 1
  /\ customers_list = <<>>
  /\ timestamp = 0
  /\ json_file = NoFile
  /\ xml_file = NoFile
  /\ log = <<>>
  /\ fault = "none"

\* json_to_xml called directly on a sequence of records
MapperInit ==
  /\ customers_data \in Inputs
  /\ mpc = "loop"
  /\ mi = 1
  /\ root_element = Element("Customers", <<>>, None, <<>>)
  /\ xml_output = NoDocument
  /\ csv_exists = FALSE
  /\ csv_rows = <<>>
  /\ dir_exists = FALSE
  /\ dpc = "idle"
  /\ DriverIdle

Init == MapperInit

Next == MapperLoop \/ MapperPrettyPrint

Spec == Init /\ [][Next]_vars

\* ------------------------------------------------------------------ Driver
DigitChars == {"0", "1", "2", "3", "4", "5", "6", "7", "8", "9"}

DigitValue(c) == CHOOSE d \in 0..9 : Digit(d) = c

\* int(text) succeeds: a non-empty run of decimal digits
IsIntText(text) == text # <<>> /\ \A k \in DOMAIN text : text[k] \in DigitChars

RECURSIVE IntOf(_)
\* int(text) for a run of decimal digits
IntOf(text) ==
  IF text = <<>> THEN 0
  ELSE 10 * IntOf(SubSeq(text, 1, Len(text) - 1)) + DigitValue(text[Len(text)])

\* line 19: int(row['Index']) raises ValueError for a string that is no integer
IntRaisesValueError(v) == v.kind = "str" /\ ~IsIntText(v.s)

\* line 19: int(None) raises TypeError, which the handler of line 20 lets pass
IntRaisesTypeError(v) == v.kind # "str"

Abort_fallthrough(message) ==
  /\ log' = Append(log, message)
  /\ dpc' = IF dpc = "json" THEN "map" ELSE "returned"

\* lines 26-27, 29-30, 33-34, 53-54, 68: print the message and return
Abort(message) ==
  /\ log' = Append(log, message)
  /\ dpc' = "returned"

\* lines 45 and 61: the two file names of a run, built from its one timestamp
FileName(prefix, stamp, extension) == <<prefix, stamp, extension>>

\* a JSON value: a string, a number or null
JsonValue(v) ==
  IF v.kind = "str" THEN [type |-> "string", s |-> v.s, n |-> 0]
  ELSE IF v.kind = "int" THEN [type |-> "number", s |-> <<>>, n |-> v.n]
  ELSE [type |-> "null", s |-> <<>>, n |-> 0]

\* a JSON object: one member per key the row has
JsonObject(row) ==
  [k \in {key \in DOMAIN row : row[key].kind # "absent"} |-> JsonValue(row[k])]

JsonDump_reversed(rows) ==
  [i \in DOMAIN rows |-> JsonObject(rows[Len(rows) + 1 - i])]

\* line 50, json.dump(customers_list): an array with one object per row
JsonDump(rows) == [i \in DOMAIN rows |-> JsonObject(rows[i])]

\* lines 13-15, 25-30: open the CSV file
OpenCsv ==
  /\ dpc = "start"
  /\ IF ~csv_exists
     THEN /\ fault' = "csv_missing"
          /\ Abort("Error: CSV file not found")
     ELSE \E ok \in BOOLEAN :
            IF ok
            THEN /\ dpc' = "read"
                 /\ UNCHANGED <<log, fault>>
            ELSE /\ fault' = "csv_open"
                 /\ Abort("Error reading CSV file")
  /\ UNCHANGED <<mvars, envvars, dir_exists, row_i, customers_list, timestamp, json_file, xml_file>>

\* lines 16-24, 28-30: one row of the reader loop
ReadRow ==
  /\ dpc = "read"
  /\ row_i <= Len(csv_rows)
  /\ \E ok \in BOOLEAN :
       IF ~ok
       THEN /\ fault' = "csv_read"
            /\ Abort("Error reading CSV file")
            /\ UNCHANGED <<row_i, customers_list>>
       ELSE LET row == csv_rows[row_i] IN
            IF IntRaisesValueError(row["Index"])
            THEN /\ log' = Append(log, "Warning: Could not convert Index")
                 /\ row_i' = row_i + 1
                 /\ UNCHANGED <<dpc, customers_list, fault>>
            ELSE IF IntRaisesTypeError(row["Index"])
            THEN /\ Abort("Error reading CSV file")
                 /\ UNCHANGED <<row_i, customers_list, fault>>
            ELSE /\ customers_list' =
                      Append(customers_list, [row EXCEPT !["Index"] = IntVal(IntOf(row["Index"].s))])
                 /\ row_i' = row_i + 1
                 /\ UNCHANGED <<dpc, log, fault>>
  /\ UNCHANGED <<mvars, envvars, dir_exists, timestamp, json_file, xml_file>>

\* lines 32-37: after the last row, stop on an empty list, else take the timestamp
EndRead ==
  /\ dpc = "read"
  /\ row_i > Len(csv_rows)
  /\ IF customers_list = <<>>
     THEN /\ Abort("No data processed from CSV.")
          /\ UNCHANGED timestamp
     ELSE /\ \E t \in Timestamps : timestamp' = t
          /\ dpc' = "mkdir"
          /\ UNCHANGED log
  /\ UNCHANGED <<mvars, envvars, dir_exists, row_i, customers_list, json_file, xml_file, fault>>

\* lines 39-42: create the output directory when it does not exist; a failure
\* of os.makedirs is caught by nothing
EnsureDir ==
  /\ dpc = "mkdir"
  /\ IF dir_exists
     THEN /\ dpc' = "json"
          /\ UNCHANGED <<dir_exists, log, fault>>
     ELSE \E ok \in BOOLEAN :
            IF ok
            THEN /\ dir_exists' = TRUE
                 /\ log' = Append(log, "Created directory")
                 /\ dpc' = "json"
                 /\ UNCHANGED fault
            ELSE /\ fault' = "mkdir"
                 /\ dpc' = "propagated"
                 /\ UNCHANGED <<dir_exists, log>>
  /\ UNCHANGED <<mvars, envvars, row_i, customers_list, timestamp, json_file, xml_file>>

\* lines 44-54: write the JSON file; a failed write may leave a partial file
WriteJson ==
  /\ dpc = "json"
  /\ \E ok \in BOOLEAN :
       IF ok
       THEN /\ json_file' = [state |-> "complete", ts |-> timestamp,
                            name |-> FileName("source_customers_", timestamp, ".json"),
                            content |-> JsonDump(customers_list)]
            /\ log' = Append(log, "Successfully created source JSON")
            /\ dpc' = "map"
            /\ UNCHANGED fault
       ELSE /\ \E left \in {"absent", "partial"} :
                 json_file' = IF left = "absent" THEN NoFile
                              ELSE [state |-> "partial", ts |-> timestamp,
                                    name |-> FileName("source_customers_", timestamp, ".json")]
            /\ fault' = "json_write"
            /\ Abort("Error writing JSON file")
  /\ UNCHANGED <<mvars, envvars, dir_exists, row_i, customers_list, timestamp, xml_file>>

\* lines 57-59: call the Mapper on the collected rows
InvokeMapper ==
  /\ dpc = "map"
  /\ dpc' = "mapping"
  /\ customers_data' = customers_list
  /\ mpc' = "loop"
  /\ mi' = 1
  /\ root_element' = Element("Customers", <<>>, None, <<>>)
  /\ xml_output' = NoDocument
  /\ UNCHANGED <<envvars, dir_exists, row_i, customers_list, timestamp, json_file, xml_file, log, fault>>

\* lines 59-68: the Mapper has returned or raised; write the XML file
WriteXml ==
  /\ dpc = "mapping"
  /\ mpc \in {"returned", "raised"}
  /\ IF mpc = "raised"
     THEN /\ Abort("Error during XML mapping or writing")
          /\ UNCHANGED <<xml_file, fault>>
     ELSE \E ok \in BOOLEAN :
            IF ok
            THEN /\ xml_file' = [state |-> "complete", ts |-> timestamp,
                                 name |-> FileName("target_customers_", timestamp, ".xml"),
                                 content |-> xml_output]
                 /\ log' = Append(log, "Successfully created target XML")
                 /\ dpc' = "returned"
                 /\ UNCHANGED fault
            ELSE /\ \E left \in {"absent", "partial"} :
                      xml_file' = IF left = "absent" THEN NoFile
                                  ELSE [state |-> "partial", ts |-> timestamp,
                                        name |-> FileName("target_customers_", timestamp, ".xml")]
                 /\ fault' = "xml_write"
                 /\ Abort("Error during XML mapping or writing")
  /\ UNCHANGED <<mvars, envvars, dir_exists, row_i, customers_list, timestamp, json_file>>

\* csv_to_json_and_xml called on a CSV path and an output directory
DriverInit ==
  /\ csv_exists \in BOOLEAN
  /\ csv_rows \in CsvInputs
  /\ ~csv_exists => csv_rows = <<>>
  /\ dir_exists \in BOOLEAN
  /\ dpc = "start"
  /\ DriverIdle
  /\ customers_data = <<>>
  /\ mpc = "idle"
  /\ mi = 1
  /\ root_element = Element("Customers", <<>>, None, <<>>)
  /\ xml_output = NoDocument

DriverNext ==
  \/ OpenCsv
  \/ ReadRow
  \/ EndRead
  \/ EnsureDir
  \/ WriteJson
  \/ InvokeMapper
  \/ MapperLoop
  \/ MapperPrettyPrint
  \/ WriteXml

DriverSpec == DriverInit /\ [][DriverNext]_vars

\* ------------------------------------------------- reading the output back
Returned == mpc = "returned"

\* the returned document as a conformant XML parser reads it
Parsed == ParseXml(xml_output)

\* the Customer that json_to_xml emits for a record taken alone
MapOne(customer_dict) == ParseXml(PrettyPrint(CustomerElement(customer_dict)))

HasChild(element, tag) ==
  \E i \in DOMAIN element.children : element.children[i].tag = tag

Child(element, tag) ==
  element.children[CHOOSE i \in DOMAIN element.children :
                     /\ element.children[i].tag = tag
                     /\ \A j \in 1..(i - 1) : element.children[j].tag # tag]

FindText(element, tag) == Child(element, tag).text

CountChildren(element, tag) ==
  Cardinality({i \in DOMAIN element.children : element.children[i].tag = tag})

\* truthy, as the glossary has it: a present, non-empty, non-null value
IsTruthy(v) ==
  /\ v.kind \notin {"absent", "none"}
  /\ v.kind = "str" => Len(v.s) > 0
  /\ v.kind = "int" => v.n # 0

\* a field of the data model: absent, null or a string
IsTextField(v) == v.kind \in {"absent", "none", "str"}

Trimmed(s) ==
  LET solid == {k \in DOMAIN s : s[k] # " "}
  IN  IF solid = {} THEN <<>>
      ELSE SubSeq(s, CHOOSE k \in solid : \A m \in solid : k <= m,
                     CHOOSE k \in solid : \A m \in solid : k >= m)

ExpectedContactName(customer_dict) ==
  LET first == IF IsTruthy(customer_dict["First Name"]) THEN customer_dict["First Name"].s ELSE <<>>
      last == IF IsTruthy(customer_dict["Last Name"]) THEN customer_dict["Last Name"].s ELSE <<>>
      joined == IF first # <<>> /\ last # <<>> THEN first \o <<" ">> \o last ELSE first \o last
  IN  IF Trimmed(joined) = <<>> THEN NA ELSE Trimmed(joined)

\* ------------------------------------------------------------------- claims
\* C1: whenever json_to_xml returns, the document has the single root
\* "Customers", its children are all "Customer" elements, as many as the input
\* records, and the i-th is the Customer derived from the i-th record; the
\* empty sequence gives a root without children.
C1_CountAndOrder ==
  Returned =>
    /\ Parsed.tag = "Customers"
    /\ Len(Parsed.children) = Len(customers_data)
    /\ \A i \in DOMAIN Parsed.children :
         /\ Parsed.children[i].tag = "Customer"
         /\ Parsed.children[i] = MapOne(customers_data[i])

C1_Witness ==
  /\ Returned
  /\ Len(customers_data) = 2
  /\ MapOne(customers_data[1]) # MapOne(customers_data[2])

\* C3: the Customer carries a CustomerID attribute iff the record's
\* "Customer Id" is truthy, and then the attribute equals that value; for a
\* missing, empty or null "Customer Id" there is no attribute at all.
C3_CustomerID ==
  Returned =>
    \A i \in DOMAIN Parsed.children :
      LET v == customers_data[i]["Customer Id"] IN
      IF IsTruthy(v)
      THEN Parsed.children[i].attrib =
             <<[name |-> "CustomerID", value |-> IF v.kind = "str" THEN v.s ELSE Digits(v.n)]>>
      ELSE Parsed.children[i].attrib = <<>>

C3_Witness ==
  /\ Returned
  /\ \E i, j \in DOMAIN customers_data :
       /\ customers_data[i]["Customer Id"] = StrVal(<<"0">>)
       /\ Parsed.children[i].attrib # <<>>
       /\ customers_data[j]["Customer Id"] = StrVal(<<>>)
       /\ Parsed.children[j].attrib = <<>>

\* C4: the Customer has a Fax child iff "Phone 2" is truthy, and then the Fax
\* text equals "Phone 2"; otherwise there is no Fax element at all; the Phone
\* element is the one the record gives without its "Phone 2".
C4_Fax ==
  Returned =>
    \A i \in DOMAIN Parsed.children :
      LET v == customers_data[i]["Phone 2"]
          c == Parsed.children[i]
      IN  /\ IF IsTruthy(v)
             THEN CountChildren(c, "Fax") = 1 /\ FindText(c, "Fax") = v.s
             ELSE CountChildren(c, "Fax") = 0
          /\ CountChildren(c, "Phone") = 1
          /\ FindText(c, "Phone") =
               FindText(MapOne([customers_data[i] EXCEPT !["Phone 2"] = Absent]), "Phone")

C4_Witness ==
  /\ Returned
  /\ \E i, j \in DOMAIN customers_data :
       /\ IsTruthy(customers_data[i]["Phone 2"])
       /\ HasChild(Parsed.children[i], "Fax")
       /\ customers_data[j]["Phone 2"] = StrVal(<<>>)
       /\ ~HasChild(Parsed.children[j], "Fax")

\* C5: ContactName is "First Name" and "Last Name" joined by one space, a
\* missing, empty or null part dropped, the result trimmed, and "N/A" when
\* nothing is left.
C5_ContactName ==
  Returned =>
    \A i \in DOMAIN Parsed.children :
      /\ CountChildren(Parsed.children[i], "ContactName") = 1
      /\ FindText(Parsed.children[i], "ContactName") = ExpectedContactName(customers_data[i])

C5_Witness ==
  /\ Returned
  /\ \E i \in DOMAIN customers_data :
       /\ customers_data[i]["First Name"] = StrVal(<<" ", "a", " ">>)
       /\ ~IsTruthy(customers_data[i]["Last Name"])
       /\ FindText(Parsed.children[i], "ContactName") = <<"a">>

\* C6: ContactTitle, Address and Region are "N/A" and PostalCode is "0" for
\* every record, also for a record that has fields named like them.
C6_Placeholders ==
  Returned =>
    \A i \in DOMAIN Parsed.children :
      LET c == Parsed.children[i] IN
      /\ FindText(c, "ContactTitle") = NA
      /\ FindText(Child(c, "FullAddress"), "Address") = NA
      /\ FindText(Child(c, "FullAddress"), "Region") = NA
      /\ FindText(Child(c, "FullAddress"), "PostalCode") = <<"0">>

C6_Witness ==
  /\ Returned
  /\ \E i \in DOMAIN customers_data :
       /\ IsTruthy(customers_data[i]["PostalCode"])
       /\ customers_data[i]["PostalCode"] # StrVal(<<"0">>)

SpecialChars == {"&", "<", ">", "\"", "'"}

HasSpecial(v) == v.kind = "str" /\ \E k \in DOMAIN v.s : v.s[k] \in SpecialChars

TextFields ==
  {<<"Company", "CompanyName">>, <<"Phone 1", "Phone">>, <<"Phone 2", "Fax">>}

AddressFields == {<<"City", "City">>, <<"Country", "Country">>}

\* C7: the returned string is well-formed, and read back by a conformant
\* parser every text taken from a non-empty source string (CompanyName,
\* Phone, Fax, City, Country), the ContactName and the CustomerID attribute
\* equal the source characters exactly, special characters included.
C7_EscapingRoundTrip ==
  Returned =>
    /\ WellFormed(xml_output)
    /\ \A i \in DOMAIN Parsed.children :
         LET c == Parsed.children[i]
             r == customers_data[i]
         IN  /\ \A f \in TextFields :
                  (r[f[1]].kind = "str" /\ r[f[1]].s # <<>>) => FindText(c, f[2]) = r[f[1]].s
             /\ \A f \in AddressFields :
                  (r[f[1]].kind = "str" /\ r[f[1]].s # <<>>) =>
                     FindText(Child(c, "FullAddress"), f[2]) = r[f[1]].s
             /\ FindText(c, "ContactName") = ExpectedContactName(r)
             /\ (r["Customer Id"].kind = "str" /\ r["Customer Id"].s # <<>>) =>
                  (c.attrib # <<>> /\ c.attrib[1].value = r["Customer Id"].s)

C7_Witness ==
  /\ Returned
  /\ \E i \in DOMAIN customers_data :
       /\ customers_data[i]["Company"] = StrVal(<<"a", " ", "&", " ", "<", "a", ">">>)
       /\ FindText(Parsed.children[i], "CompanyName") = <<"a", " ", "&", " ", "<", "a", ">">>

SourcedFields ==
  {<<"Company", "CompanyName">>, <<"Phone 1", "Phone">>}

\* C2 (as claimed): each of CompanyName, Phone, City and Country is the source
\* value when the key is present with a non-empty, non-null value, and "N/A"
\* both when the key is absent and when its value is empty or null.
C2_DefaultOnEmpty ==
  Returned =>
    \A i \in DOMAIN Parsed.children :
      LET c == Parsed.children[i]
          r == customers_data[i]
      IN  /\ \A f \in SourcedFields :
               IsTextField(r[f[1]]) =>
                 FindText(c, f[2]) = IF IsTruthy(r[f[1]]) THEN r[f[1]].s ELSE NA
          /\ \A f \in AddressFields :
               IsTextField(r[f[1]]) =>
                 FindText(Child(c, "FullAddress"), f[2]) =
                   IF IsTruthy(r[f[1]]) THEN r[f[1]].s ELSE NA

\* C8 (as claimed): json_to_xml never raises, whatever the fields hold.
C8_NeverRaises == mpc # "raised"

LegalString(v) == v.kind = "str" /\ \A k \in DOMAIN v.s : v.s[k] # CTRL

\* every referenced field is absent, null or a string of characters XML can
\* carry; "Customer Id" may also be an integer
CleanRecord(customer_dict) ==
  /\ \A k \in RefKeys \ {"Customer Id"} :
       customer_dict[k].kind \in {"absent", "none"} \/ LegalString(customer_dict[k])
  /\ \/ customer_dict["Customer Id"].kind \in {"absent", "none", "int"}
     \/ LegalString(customer_dict["Customer Id"])

\* C8 (amended): json_to_xml does not raise, and what it returns is a
\* well-formed document, for every sequence of records whose referenced fields
\* are absent, null or strings of characters XML can carry ("Customer Id" may
\* also be an integer), whichever of them are absent, empty or null and
\* whatever the other fields, the integer Index included, hold.
C8_CleanNeverRaises ==
  (\A i \in DOMAIN customers_data : CleanRecord(customers_data[i])) =>
    /\ mpc # "raised"
    /\ Returned => (xml_output.tag = "Customers" /\ WellFormed(xml_output))

C8_Witness ==
  /\ Returned
  /\ \A i \in DOMAIN customers_data : CleanRecord(customers_data[i])
  /\ \E i, j \in DOMAIN customers_data :
       /\ customers_data[i]["Customer Id"] = IntVal(7)
       /\ customers_data[i]["Index"].kind = "int"
       /\ customers_data[j] = EmptyRecord

\* the rows whose Index is integer-parseable, in CSV order, Index converted
Survivors(rows) ==
  LET Parseable(row) ==
        /\ row["Index"].kind = "str"
        /\ row["Index"].s # <<>>
        /\ \A k \in DOMAIN row["Index"].s : row["Index"].s[k] \in DigitChars
      kept == SelectSeq(rows, Parseable)
  IN  [i \in DOMAIN kept |-> [kept[i] EXCEPT !["Index"] = IntVal(IntOf(kept[i]["Index"].s))]]

CountOf(messages, message) ==
  Cardinality({k \in DOMAIN messages : messages[k] = message})

ReadFault == fault \in {"csv_missing", "csv_open", "csv_read"}

\* C9 (as claimed): once the reader loop is over without an I/O error, the
\* collected rows are exactly the rows with an integer-parseable Index, in CSV
\* order, every other row (non-numeric, empty or null Index) was skipped with
\* one warning, and no row aborted the run.
C9_SkipBadRows ==
  (dpc \notin {"idle", "start", "read"} /\ ~ReadFault) =>
    /\ customers_list = Survivors(csv_rows)
    /\ CountOf(log, "Warning: Could not convert Index") = Len(csv_rows) - Len(Survivors(csv_rows))
    /\ CountOf(log, "Error reading CSV file") = 0

ErrorMessages ==
  {"Error: CSV file not found", "Error reading CSV file", "Error writing JSON file",
   "Error during XML mapping or writing"}

\* C10 (as claimed): no exception leaves csv_to_json_and_xml, and a run in
\* which an I/O step or the mapping failed has returned with an error message
\* as the last thing it reported.
C10_FailsSoftly ==
  /\ dpc # "propagated"
  /\ (dpc = "returned" /\ (fault # "none" \/ mpc = "raised")) =>
       (log # <<>> /\ log[Len(log)] \in ErrorMessages)

\* the run is over, the CSV was read without a reported error and no
\* directory creation or write failed
CleanRun ==
  /\ dpc = "returned"
  /\ fault = "none"
  /\ CountOf(log, "Error reading CSV file") = 0

\* the JSON object carries the row: the CSV header names, every value kept
ObjectCarries(object, row) ==
  /\ DOMAIN object = CsvKeys
  /\ \A k \in CsvKeys :
       /\ row[k].kind = "str" => (object[k].type = "string" /\ object[k].s = row[k].s)
       /\ row[k].kind = "int" => (object[k].type = "number" /\ object[k].n = row[k].n)
       /\ row[k].kind = "none" => object[k].type = "null"

\* the directory exists and holds the run's two files, named with one
\* timestamp, the JSON array and the XML document each with one entry per
\* surviving row, in CSV order
TwoFilesProduced ==
  /\ dir_exists
  /\ json_file.state = "complete"
  /\ xml_file.state = "complete"
  /\ \E t \in Timestamps :
       /\ json_file.name = <<"source_customers_", t, ".json">>
       /\ xml_file.name = <<"target_customers_", t, ".xml">>
  /\ Len(json_file.content) = Len(Survivors(csv_rows))
  /\ \A i \in DOMAIN json_file.content :
       ObjectCarries(json_file.content[i], Survivors(csv_rows)[i])
  /\ ParseXml(xml_file.content).tag = "Customers"
  /\ Len(ParseXml(xml_file.content).children) = Len(Survivors(csv_rows))
  /\ \A i \in DOMAIN ParseXml(xml_file.content).children :
       ParseXml(xml_file.content).children[i].tag = "Customer"

\* C11 (as claimed): every run in which the CSV is read without error and no
\* write fails leaves the output directory and exactly the two files
\* source_customers_<t>.json and target_customers_<t>.xml with one timestamp,
\* one JSON object and one Customer per surviving row in CSV order, for any
\* number of surviving rows.
C11_TwoFiles == CleanRun => TwoFilesProduced

\* C11 (amended): the same, for every such run in which at least one row
\* survives and the Mapper returns; with no surviving row the run reports
\* "No data processed from CSV." and writes nothing.
C11_TwoFilesWhenRowsSurvive ==
  /\ (CleanRun /\ Survivors(csv_rows) # <<>> /\ mpc # "raised") => TwoFilesProduced
  /\ (CleanRun /\ Survivors(csv_rows) = <<>>) =>
       (json_file = NoFile /\ xml_file = NoFile
        /\ log[Len(log)] = "No data processed from CSV.")

C11_Witness ==
  /\ CleanRun
  /\ Len(Survivors(csv_rows)) = 2
  /\ Survivors(csv_rows)[1] # Survivors(csv_rows)[2]
  /\ CountOf(log, "Created directory") = 1
  /\ json_file.state = "complete"
  /\ xml_file.state = "complete"

\* the CSV read failed: the file was missing, or a read error was reported
ReadFailed == ReadFault \/ CountOf(log, "Error reading CSV file") > 0

\* C12: within a run the steps come in the order read CSV, write JSON, invoke
\* Mapper, write XML, and a failure ends the run with no retry and no cleanup:
\* after a failed CSV read no file is written; after a failed JSON write the
\* Mapper is not invoked and there is no XML file; after a failed mapping or
\* XML write the JSON file stays in place; an XML file never exists unless the
\* run's JSON file was written successfully before it.
C12_OrderedAbort ==
  /\ json_file # NoFile => dpc \notin {"start", "read"}
  /\ mpc # "idle" => json_file.state = "complete"
  /\ xml_file # NoFile =>
       (mpc = "returned" /\ json_file.state = "complete" /\ json_file.ts = xml_file.ts)
  /\ ReadFailed => (json_file = NoFile /\ xml_file = NoFile /\ mpc = "idle")
  /\ fault = "json_write" => (dpc = "returned" /\ mpc = "idle" /\ xml_file = NoFile)
  /\ (fault = "xml_write" \/ mpc = "raised") => json_file.state = "complete"
  /\ CountOf(log, "Successfully created source JSON") > 0 => json_file.state = "complete"
  /\ \A m \in ErrorMessages \cup {"Successfully created source JSON",
                                  "Successfully created target XML"} : CountOf(log, m) <= 1
  /\ \A k \in 1..(Len(log) - 1) : log[k] \notin ErrorMessages
  /\ (log # <<>> /\ log[Len(log)] \in ErrorMessages) => dpc = "returned"

C12_Witness ==
  /\ dpc = "returned"
  /\ fault = "json_write"
  /\ json_file.state = "partial"
  /\ mpc = "idle"
  /\ xml_file = NoFile

====
